---- MODULE Spec2Model ----
(***************************************************************************)
(* easybase/table.py: the table access layer (codec helpers, row decoder,  *)
(* Table operations) and the scan cursor, run against a client whose RPCs  *)
(* are recorded.  One caller invokes one operation at a time; a scan is a  *)
(* Python generator, so its body runs in segments, one per next().         *)
(***************************************************************************)
EXTENDS Integers, Sequences, FiniteSets, TLC

VARIABLES
    pc,       \* "idle", or where the latest call is: "created" (generator
              \* not started), "yield" (generator suspended at line 337),
              \* "done" (generator returned), "closed" (generator closed by
              \* the caller), "returned", "raised"
    op,       \* name of the latest operation invoked
    args,     \* its arguments
    gen,      \* locals of the scan generator frame
    ret,      \* value returned by the latest non-generator call
    err,      \* exception that left the latest call
    rpcs,     \* RPCs the latest call has issued on connection.client, in order
    yielded,  \* (row key, row) pairs the scan generator has yielded, in order
    scanner,  \* server side of the open scanner: rows in range, cursor
    lastResp, \* what the server answered to the get / getMultiple of the latest call
    counter,  \* server-side cell of each counter column
    sum       \* per counter column, the sum of the signed deltas of the
              \* counter calls that returned

vars == <<pc, op, args, gen, ret, err, rpcs, yielded, scanner, lastResp, counter, sum>>

-----------------------------------------------------------------------------
(* Bounds of the model *)

MaxBatch == 2      \* batch_size is drawn from 0..MaxBatch
MaxLimit == 3      \* limit is drawn from None and 0..MaxLimit
MaxRows == 3       \* the server range holds 0..MaxRows matching rows
MaxKeys == 2       \* Table.rows is called with up to MaxKeys keys
MaxCells == 2      \* make_row is called with up to MaxCells cells
MaxCounter == 2    \* the counter stays within -MaxCounter..MaxCounter
MaxDelta == 2      \* counter deltas are drawn from -MaxDelta..MaxDelta

-----------------------------------------------------------------------------
(* Python values.  Every value carries its type, so that None, a str, *)
(* a list and a dict are distinguishable the way isinstance sees them.  *)
(* A str is the sequence of its symbols.                                *)

None == [t |-> "None"]
PyInt(n) == [t |-> "int", v |-> n]
PyStr(s) == [t |-> "str", v |-> s]
PyList(s) == [t |-> "list", v |-> s]
PyTuple(s) == [t |-> "tuple", v |-> s]
PyDict(f) == [t |-> "dict", v |-> f]
PyBool(b) == [t |-> "bool", v |-> b]

IsNone(x) == x.t = "None"
IsSeq(x) == x.t \in {"list", "tuple"}

EmptyMap == [k \in {} |-> 0]

NoErr == [type |-> "none", at |-> "none"]
Raise(type, at) == [type |-> type, at |-> at]

Ok(v) == [err |-> NoErr, val |-> v]
Fail(type, at) == [err |-> Raise(type, at), val |-> None]

Rpc(name, payload) == [op |-> name, a |-> payload]

Min(a, b) == IF a < b THEN a ELSE b

-----------------------------------------------------------------------------
(* Column / range codec *)

Sep == ":"

RECURSIVE SplitFrom(_, _, _)
SplitFrom(s, i, cur) ==
    IF i > Len(s) THEN <<cur>>
    ELSE IF s[i] = Sep THEN <<cur>> \o SplitFrom(s, i + 1, <<>>)
    ELSE SplitFrom(s, i + 1, Append(cur, s[i]))

\* str.split(':')
split(s) == SplitFrom(s, 1, <<>>)

TTimeRange(lo, hi) == [t |-> "TTimeRange", minStamp |-> lo, maxStamp |-> hi]

\* make_timerange: time.now does not exist in the time module, so the
\* right-hand side of line 32 raises before the item assignment is tried.
make_timerange(ts) ==
    IF IsNone(ts) THEN Ok(ts)
    ELSE IF ~IsSeq(ts) THEN Fail("TypeError", "timerange")
    ELSE IF Len(ts.v) = 1 THEN Fail("AttributeError", "time.now")
    ELSE IF Len(ts.v) < 2 THEN Fail("IndexError", "timerange[0]")
    ELSE Ok(TTimeRange(ts.v[1], ts.v[2]))

TColumn(f, q) == [family |-> f, qualifier |-> q]

\* make_columns: "f, q = c.split(':')" needs exactly two parts
make_columns(cols) ==
    IF IsNone(cols) THEN Ok(cols)
    ELSE IF ~IsSeq(cols) THEN Fail("TypeError", "columns")
    ELSE IF \E i \in 1..Len(cols.v) : Len(split(cols.v[i])) # 2
         THEN Fail("ValueError", "column_syntax")
    ELSE Ok(PyList([i \in 1..Len(cols.v) |->
                      TColumn(split(cols.v[i])[1], split(cols.v[i])[2])]))

TColumnValue(f, q, v) == [family |-> f, qualifier |-> q, value |-> v]

\* make_columnvalue: data is the dict's items in iteration order
make_columnvalue(data) ==
    IF \E i \in 1..Len(data) : Len(split(data[i][1])) # 2
    THEN Fail("ValueError", "column_syntax")
    ELSE Ok(PyList([i \in 1..Len(data) |->
                      TColumnValue(split(data[i][1])[1], split(data[i][1])[2],
                                   data[i][2])]))

\* util.str_increment: drop trailing 0xFF bytes, increment the last byte left
RECURSIVE StripFF(_)
StripFF(s) ==
    IF s = <<>> THEN s
    ELSE IF s[Len(s)] = 255 THEN StripFF(SubSeq(s, 1, Len(s) - 1))
    ELSE s

str_increment(s) ==
    LET r == StripFF(s.v)
    IN  IF r = <<>> THEN None
        ELSE PyStr([r EXCEPT ![Len(r)] = @ + 1])

-----------------------------------------------------------------------------
(* Row decoder *)

Cell(f, q, v, ts) == [family |-> f, qualifier |-> q, value |-> v, timestamp |-> ts]

TimestampKey == <<"timestamp">>

\* tmp_d after the first n iterations of the loop of lines 72-75
RECURSIVE TmpD(_, _)
TmpD(cells, n) ==
    IF n = 0 THEN EmptyMap
    ELSE LET r == cells[n]
         IN  (TimestampKey :> r.timestamp)
             @@ ((r.family \o <<Sep>> \o r.qualifier) :> r.value)
             @@ TmpD(cells, n - 1)

\* make_row: rs holds the one dict tmp_d once per cell; include_timestamp
\* is not read.  Iterating None raises TypeError.
make_row(cell_map, include_timestamp) ==
    IF IsNone(cell_map) THEN Fail("TypeError", "decode")
    ELSE Ok(PyList([i \in 1..Len(cell_map.v) |->
                      PyDict(TmpD(cell_map.v, Len(cell_map.v)))]))

-----------------------------------------------------------------------------
(* Table: the instance attributes are the ones __init__ sets *)

Self == [name |-> <<"t">>, connection |-> "client"]

HasAttr(obj, a) == a \in DOMAIN obj

-----------------------------------------------------------------------------
(* Inputs the caller draws from *)

GoodCol == <<"cf1", Sep, "c1">>
GoodCol2 == <<"cf1", Sep>>
NoSepCol == <<"cf1">>
TwoSepCol == <<"cf1", Sep, "c1", Sep, "x">>

ColumnsArgs ==
    { None, PyStr(GoodCol), PyList(<<GoodCol>>), PyTuple(<<GoodCol, GoodCol2>>),
      PyList(<<GoodCol, NoSepCol>>), PyList(<<TwoSepCol>>) }

TimerangeArgs ==
    { None, PyInt(1), PyList(<<1>>), PyTuple(<<1>>), PyList(<<1, 2>>) }

RowKeys == { PyStr(<<97>>), PyStr(<<97, 255>>) }

\* a well-formed call: scan(batch_size=1)
BaseScanArgs ==
    [ row_start |-> None, row_stop |-> None, row_prefix |-> None,
      columns |-> None, timerange |-> None, include_timestamp |-> FALSE,
      batch_size |-> 1, scan_batching |-> None, limit |-> None ]

\* every batch_size with every limit, and each other argument varied on
\* its own (the row bounds together, since their combination is checked)
ScanArgs ==
    { [BaseScanArgs EXCEPT !.batch_size = b, !.limit = l] :
        b \in 0..MaxBatch, l \in {None} \cup { PyInt(n) : n \in 0..MaxLimit } }
    \cup { [BaseScanArgs EXCEPT !.row_start = s, !.row_stop = e, !.row_prefix = p] :
        s \in {None, PyStr(<<97>>)}, e \in {None, PyStr(<<98>>)},
        p \in {None, PyStr(<<97, 255>>)} }
    \cup { [BaseScanArgs EXCEPT !.columns = c] : c \in ColumnsArgs }
    \cup { [BaseScanArgs EXCEPT !.timerange = tr] : tr \in TimerangeArgs }
    \cup { [BaseScanArgs EXCEPT !.scan_batching = sb] : sb \in {None, PyInt(0), PyInt(1)} }
    \cup { [BaseScanArgs EXCEPT !.include_timestamp = TRUE] }

ScannerIds == {1, 2}

-----------------------------------------------------------------------------
(* Table.scan *)

NoGen == [scan_id |-> 0, n_returned |-> 0, n_fetched |-> 0,
          items |-> <<>>, idx |-> 0, enum_start |-> 0]

NoScanner == [rows |-> 0, bad |-> 0, pos |-> 0]

\* row i of the server's range; the row "bad" carries no cell list
ServerRow(i, bad) ==
    [t |-> "TResult", row |-> i,
     columnValues |-> IF i = bad THEN None
                      ELSE PyList(<<Cell(<<"cf1">>, <<"c1">>, "v", i)>>)]

\* lines 280-302: everything the generator does before openScanner
ScanChecks(a) ==
    IF a.batch_size < 1 THEN Fail("ValueError", "batch_size")
    ELSE IF ~IsNone(a.limit) /\ a.limit.v < 1 THEN Fail("ValueError", "limit")
    ELSE IF ~IsNone(a.scan_batching) /\ a.scan_batching.v < 1
         THEN Fail("ValueError", "scan_batching")
    ELSE IF ~IsNone(a.row_prefix) /\ (~IsNone(a.row_start) \/ ~IsNone(a.row_stop))
         THEN Fail("TypeError", "row_prefix")
    ELSE LET start0 == IF ~IsNone(a.row_prefix) THEN a.row_prefix ELSE a.row_start
             stop == IF ~IsNone(a.row_prefix) THEN str_increment(a.row_prefix)
                     ELSE a.row_stop
             start == IF IsNone(start0) THEN PyStr(<<>>) ELSE start0
             cols == make_columns(a.columns)
             tt == make_timerange(a.timerange)
         IN  IF cols.err # NoErr THEN cols
             ELSE IF tt.err # NoErr THEN tt
             ELSE Ok([startRow |-> start, stopRow |-> stop, timeRange |-> tt.val,
                      columns |-> cols.val, caching |-> a.batch_size,
                      filterString |-> None, batchSize |-> a.scan_batching,
                      reversed |-> FALSE])

\* HowMany with the limit left out of the request size
HowMany_IgnoreLimit(batch_size, limit, n_returned) == batch_size

\* lines 321-324
HowMany(batch_size, limit, n_returned) ==
    IF IsNone(limit) THEN batch_size
    ELSE Min(batch_size, limit.v - n_returned)

\* line 339
LimitReached(limit, n_returned) ==
    ~IsNone(limit) /\ n_returned = limit.v

\* EnumStart numbering the batch from n_returned instead of n_returned + 1
EnumStart_FromCount(n_returned) == n_returned

\* line 334: enumerate(items, n_returned + 1)
EnumStart(n_returned) == n_returned + 1

\* FinallyRpcs without the closeScanner call
FinallyRpcs_NoClose(log, scan_id) == log

\* line 342: the finally clause issues closeScanner
FinallyRpcs(log, scan_id) ==
    Append(log, Rpc("closeScanner", [id |-> scan_id]))

\* A segment of the generator body ends in one of these.  Each is a record
\* of the variables the segment leaves behind.
Outcome(p, e, g, log, pos, yl) ==
    [pc |-> p, err |-> e, gen |-> g, rpcs |-> log, pos |-> pos, yielded |-> yl]

\* lines 341-345: control leaves the try block; closeScanner may itself fail
Exit(p, e, g, log, pos, yl) ==
    { Outcome(p, e, g, FinallyRpcs(log, g.scan_id), pos, yl),
      Outcome("raised", Raise("TransportFailure", "closeScanner"), g,
              FinallyRpcs(log, g.scan_id), pos, yl) }

\* lines 334-337 for the i-th item of the batch: number it, decode it, yield it
ForItem(a, g, i, log, pos, yl) ==
    LET item == g.items[i]
        g1 == [g EXCEPT !.idx = i, !.n_returned = g.enum_start + (i - 1)]
        row == make_row(item.columnValues, a.include_timestamp)
    IN  IF row.err # NoErr THEN Exit("raised", row.err, g1, log, pos, yl)
        ELSE { Outcome("yield", NoErr, g1, log, pos,
                       Append(yl, <<item.row, row.val>>)) }

\* what the server answers to getScannerRows(id, n): at most n rows, and
\* no row only when the range is exhausted (or none was asked for)
BatchSizes(n, remaining) ==
    IF remaining = 0 \/ n < 1 THEN {0} ELSE 1..Min(n, remaining)

\* lines 320-337: from the head of the while loop to the next yield or exit
FetchLoop(a, g, log, sc, yl) ==
    LET n == HowMany(a.batch_size, a.limit, g.n_returned)
        log1 == Append(log, Rpc("getScannerRows", [id |-> g.scan_id, n |-> n]))
    IN  Exit("raised", Raise("TransportFailure", "getScannerRows"), g, log1, sc.pos, yl)
        \cup UNION {
            IF k = 0 THEN Exit("done", NoErr, [g EXCEPT !.items = <<>>, !.idx = 0],
                               log1, sc.pos, yl)
            ELSE ForItem(a,
                         [g EXCEPT !.items = [j \in 1..k |-> ServerRow(sc.pos + j, sc.bad)],
                                   !.n_fetched = @ + k,
                                   !.enum_start = EnumStart(g.n_returned)],
                         1, log1, sc.pos + k, yl)
            : k \in BatchSizes(n, sc.rows - sc.pos) }

\* MoreItems leaving the loop one item early
MoreItems_SkipLast(items, idx) == idx + 1 < Len(items)

\* line 334: the for loop has another item of the batch to hand out
MoreItems(items, idx) == idx < Len(items)

\* Resuming after the yield of line 337: line 339, then the next item of
\* the batch, then the next batch
Resume(a, g, log, sc, yl) ==
    IF LimitReached(a.limit, g.n_returned) THEN Exit("done", NoErr, g, log, sc.pos, yl)
    ELSE IF MoreItems(g.items, g.idx) THEN ForItem(a, g, g.idx + 1, log, sc.pos, yl)
    ELSE FetchLoop(a, g, log, sc, yl)

Idle == pc \in {"idle", "done", "closed", "returned", "raised"}

\* Calling a generator function runs none of its body
ScanCall ==
    /\ Idle
    /\ \E a \in ScanArgs :
        /\ args' = a
        /\ op' = "scan"
        /\ pc' = "created"
        /\ gen' = NoGen
        /\ ret' = None
        /\ err' = NoErr
        /\ rpcs' = <<>>
        /\ yielded' = <<>>
        /\ scanner' = NoScanner
    /\ lastResp' = None
    /\ UNCHANGED <<counter, sum>>

Apply(o, sc) ==
    /\ pc' = o.pc
    /\ err' = o.err
    /\ gen' = o.gen
    /\ rpcs' = o.rpcs
    /\ yielded' = o.yielded
    /\ scanner' = [sc EXCEPT !.pos = o.pos]

\* ScanOpen opening the scanner before the arguments are checked
ScanOpen_OpenFirst(a) ==
    [err |-> ScanChecks(a).err,
     rpcs |-> <<Rpc("openScanner", [table |-> Self.name, tscan |-> ScanChecks(a).val])>>]

\* lines 280-314: the checks, and only then the openScanner RPC
ScanOpen(a) ==
    LET chk == ScanChecks(a)
    IN  IF chk.err # NoErr THEN [err |-> chk.err, rpcs |-> <<>>]
        ELSE [err |-> NoErr,
              rpcs |-> <<Rpc("openScanner", [table |-> Self.name, tscan |-> chk.val])>>]

\* First next(): lines 280-337
ScanFirstNext ==
    /\ pc = "created"
    /\ LET o == ScanOpen(args)
       IN  \/ /\ o.err # NoErr
              /\ pc' = "raised"
              /\ err' = o.err
              /\ rpcs' = o.rpcs
              /\ UNCHANGED <<gen, yielded, scanner>>
           \/ /\ o.err = NoErr
              /\ pc' = "raised"
              /\ err' = Raise("TransportFailure", "openScanner")
              /\ rpcs' = o.rpcs
              /\ UNCHANGED <<gen, yielded, scanner>>
           \/ /\ o.err = NoErr
              /\ \E id \in ScannerIds, n \in 0..MaxRows :
                 \E bad \in 0..n :
                    LET sc == [rows |-> n, bad |-> bad, pos |-> 0]
                    IN  \E f \in FetchLoop(args, [NoGen EXCEPT !.scan_id = id],
                                           o.rpcs, sc, <<>>) :
                            Apply(f, sc)
    /\ UNCHANGED <<op, args, ret, lastResp, counter, sum>>

\* A later next(): lines 339, 334-337, 320-332
ScanNext ==
    /\ pc = "yield"
    /\ \E o \in Resume(args, gen, rpcs, scanner, yielded) : Apply(o, scanner)
    /\ UNCHANGED <<op, args, ret, lastResp, counter, sum>>

\* The caller abandons the iteration: generator.close().  A generator that
\* never started just ends; one suspended at the yield gets GeneratorExit
\* there and runs the finally clause.
ScanClose ==
    /\ \/ /\ pc = "created"
          /\ pc' = "closed"
          /\ UNCHANGED <<gen, err, rpcs, yielded, scanner>>
       \/ /\ pc = "yield"
          /\ \E o \in Exit("closed", NoErr, gen, rpcs, scanner.pos, yielded) :
                Apply(o, scanner)
    /\ UNCHANGED <<op, args, ret, lastResp, counter, sum>>

-----------------------------------------------------------------------------
(* The other operations run to completion in one step.  Each body is the  *)
(* set of ways the call can end: [pc, err, ret, rpcs, resp].               *)

Result(p, e, r, log, resp) ==
    [pc |-> p, err |-> e, ret |-> r, rpcs |-> log, resp |-> resp]

Returned(r, log, resp) == Result("returned", NoErr, r, log, resp)
Raised(e, log) == Result("raised", e, None, log, None)

SeqsUpTo(S, n) == UNION { [1..k -> S] : k \in 0..n }

Cells ==
    { Cell(<<"cf1">>, <<"c1">>, "v1", 1),
      Cell(<<"cf1">>, <<"c1">>, "v2", 2),
      Cell(<<"cf1">>, <<"c2">>, "v3", 3) }

CellLists == SeqsUpTo(Cells, MaxCells)

TResult(row, cells) == [t |-> "TResult", row |-> row, columnValues |-> cells]

TGet(row, columns, timestamp, timeRange, maxVersions) ==
    [row |-> row, columns |-> columns, timestamp |-> timestamp,
     timeRange |-> timeRange, maxVersions |-> maxVersions]

\* what the server may answer to get: no result, or the cells of the row
GetResults(row) == {None} \cup { TResult(row, PyList(cs)) : cs \in SeqsUpTo(Cells, 1) }

\* Table.row, lines 157-168
RowBody(a) ==
    IF ~IsNone(a.columns) /\ ~IsSeq(a.columns)
    THEN { Raised(Raise("TypeError", "columns"), <<>>) }
    ELSE IF ~IsNone(a.timerange) /\ ~IsSeq(a.timerange)
    THEN { Raised(Raise("TypeError", "timerange"), <<>>) }
    ELSE LET cols == make_columns(a.columns)
             tt == make_timerange(a.timerange)
             tget == TGet(a.row, cols.val, None, tt.val, 1)
             log == <<Rpc("get", [table |-> Self.name, tget |-> tget])>>
         IN  IF cols.err # NoErr THEN { Raised(cols.err, <<>>) }
             ELSE IF tt.err # NoErr THEN { Raised(tt.err, <<>>) }
             ELSE { Raised(Raise("TransportFailure", "get"), log) }
                  \cup { IF IsNone(res) THEN Returned(PyDict(EmptyMap), log, res)
                         ELSE Returned(make_row(res.columnValues, a.include_timestamp).val,
                                       log, res)
                         : res \in GetResults(a.row) }

\* MakeTGets building the requests in reverse key order
MakeTGets_Reversed(rows, columns, timerange) ==
    [i \in 1..Len(rows) |-> TGet(rows[Len(rows) + 1 - i], columns, None, timerange, 1)]

\* lines 193-195: one TGet per key, in key order
MakeTGets(rows, columns, timerange) ==
    [i \in 1..Len(rows) |-> TGet(rows[i], columns, None, timerange, 1)]

\* what the server may answer to getMultiple: results for some of the
\* keys asked for, in an order of its own
MultiResults(keys) ==
    { [i \in 1..Len(rs) |-> TResult(rs[i], PyList(<<Cell(<<"cf1">>, <<"c1">>, "v1", 1)>>))]
      : rs \in SeqsUpTo({ keys[i] : i \in 1..Len(keys) }, Len(keys)) }

\* line 190: "if not rows"
RowsShortCircuit(rows) == Len(rows) = 0

\* Table.rows, lines 190-199
RowsBody(a) ==
    IF RowsShortCircuit(a.rows) THEN { Returned(PyDict(EmptyMap), <<>>, None) }
    ELSE LET tgets == MakeTGets(a.rows, a.columns, a.timerange)
             log == <<Rpc("getMultiple", [table |-> Self.name, tgets |-> tgets])>>
         IN  { Raised(Raise("TransportFailure", "getMultiple"), log) }
             \cup { Returned(PyList([i \in 1..Len(results) |->
                                 <<results[i].row,
                                   make_row(results[i].columnValues,
                                            a.include_timestamp).val>>]),
                             log, PyList(results))
                    : results \in MultiResults(a.rows) }

TPut(row, columnValues, durability, timestamp) ==
    [row |-> row, columnValues |-> columnValues, durability |-> durability,
     timestamp |-> timestamp]

\* Table.put, lines 371-376
PutBody(a) ==
    IF IsNone(a.wal) /\ ~HasAttr(Self, "wal")
    THEN { Raised(Raise("AttributeError", "self.wal"), <<>>) }
    ELSE LET wal == IF IsNone(a.wal) THEN Self["wal"] ELSE a.wal
             cols == make_columnvalue(a.data)
             log == <<Rpc("put", [table |-> Self.name,
                                  tput |-> TPut(a.row, cols.val, wal, None)])>>
         IN  IF cols.err # NoErr THEN { Raised(cols.err, <<>>) }
             ELSE { Raised(Raise("TransportFailure", "put"), log),
                    Returned(None, log, None) }

TDelete(row, columns, timestamp, deleteType, attributes, durability) ==
    [row |-> row, columns |-> columns, timestamp |-> timestamp,
     deleteType |-> deleteType, attributes |-> attributes, durability |-> durability]

\* Table.delete, lines 406-408
DeleteBody(a) ==
    LET cols == make_columns(a.columns)
        log == <<Rpc("deleteSingle",
                     [table |-> Self.name,
                      tdelete |-> TDelete(a.row, cols.val, None, 1, None, PyBool(FALSE))])>>
    IN  IF cols.err # NoErr THEN { Raised(cols.err, <<>>) }
        ELSE { Raised(Raise("TransportFailure", "deleteSingle"), log),
               Returned(None, log, None) }

-----------------------------------------------------------------------------
(* Atomic counters *)

Missing == [present |-> FALSE, v |-> 0]

CounterCols == { <<"cf1", Sep, "a">>, <<"cf1", Sep, "b">> }

\* the server's atomicIncrement: a missing counter counts from 0
Incremented(ctr, delta) ==
    [present |-> TRUE, v |-> (IF ctr.present THEN ctr.v ELSE 0) + delta]

\* Table.counter_inc, lines 468-469: [pc, err, ret, rpcs, counter]
counter_inc(row, column, value, ctr) ==
    LET log == <<Rpc("atomicIncrement",
                     [table |-> Self.name, row |-> row, column |-> column,
                      value |-> value])>>
    IN  { [pc |-> "raised", err |-> Raise("TransportFailure", "atomicIncrement"),
           ret |-> None, rpcs |-> log, counter |-> ctr],
          [pc |-> "returned", err |-> NoErr,
           ret |-> PyInt(Incremented(ctr, value).v), rpcs |-> log,
           counter |-> Incremented(ctr, value)] }

\* Table.counter_get, line 433
counter_get(row, column, ctr) == counter_inc(row, column, 0, ctr)

\* counter_dec passing the value on without negating it
counter_dec_NoNegate(row, column, value, ctr) == counter_inc(row, column, value, ctr)

\* Table.counter_dec, line 480
counter_dec(row, column, value, ctr) == counter_inc(row, column, -value, ctr)

-----------------------------------------------------------------------------
(* The calls *)

Complete(name, a, r) ==
    /\ op' = name
    /\ args' = a
    /\ pc' = r.pc
    /\ err' = r.err
    /\ ret' = r.ret
    /\ rpcs' = r.rpcs
    /\ gen' = NoGen
    /\ yielded' = <<>>
    /\ scanner' = NoScanner

\* make_row called on a cell list
MakeRowCall ==
    /\ Idle
    /\ \E cs \in CellLists, its \in BOOLEAN :
          LET a == [cell_map |-> PyList(cs), include_timestamp |-> its]
          IN  Complete("make_row", a,
                       Returned(make_row(a.cell_map, a.include_timestamp).val, <<>>, None))
    /\ lastResp' = None
    /\ UNCHANGED <<counter, sum>>

MakeTimerangeArgs == TimerangeArgs \cup { PyList(<<>>), PyList(<<1, 2, 3>>) }

\* make_timerange called at wall-clock time now
MakeTimerangeCall ==
    /\ Idle
    /\ \E ts \in MakeTimerangeArgs, now \in {5, 6} :
          LET a == [ts |-> ts, now |-> now]
              r == make_timerange(ts)
          IN  Complete("make_timerange", a,
                       IF r.err # NoErr THEN Raised(r.err, <<>>)
                       ELSE Returned(r.val, <<>>, None))
    /\ lastResp' = None
    /\ UNCHANGED <<counter, sum>>

RowArgs ==
    [ row : RowKeys, columns : ColumnsArgs, timerange : TimerangeArgs,
      include_timestamp : BOOLEAN ]

Row ==
    /\ Idle
    /\ \E a \in RowArgs : \E r \in RowBody(a) :
          /\ Complete("row", a, r)
          /\ lastResp' = r.resp
    /\ UNCHANGED <<counter, sum>>

RowsArgs ==
    [ rows : SeqsUpTo(RowKeys, MaxKeys), columns : {None, PyList(<<GoodCol>>)},
      timerange : {None}, include_timestamp : {FALSE} ]

Rows ==
    /\ Idle
    /\ \E a \in RowsArgs : \E r \in RowsBody(a) :
          /\ Complete("rows", a, r)
          /\ lastResp' = r.resp
    /\ UNCHANGED <<counter, sum>>

DataArgs ==
    { <<>>, <<<<GoodCol, "v1">>>>, <<<<GoodCol, "v1">>, <<GoodCol2, "v2">>>>,
      <<<<GoodCol, "v1">>, <<NoSepCol, "v2">>>> }

PutArgs ==
    [ row : RowKeys, data : DataArgs, wal : {None, PyBool(TRUE), PyBool(FALSE)} ]

Put ==
    /\ Idle
    /\ \E a \in PutArgs : \E r \in PutBody(a) : Complete("put", a, r)
    /\ lastResp' = None
    /\ UNCHANGED <<counter, sum>>

DeleteArgs == [ row : RowKeys, columns : ColumnsArgs ]

Delete ==
    /\ Idle
    /\ \E a \in DeleteArgs : \E r \in DeleteBody(a) : Complete("delete", a, r)
    /\ lastResp' = None
    /\ UNCHANGED <<counter, sum>>

CounterRow == PyStr(<<97>>)

InRange(n) == -MaxCounter <= n /\ n <= MaxCounter

CounterGet ==
    /\ Idle
    /\ \E c \in CounterCols : \E r \in counter_get(CounterRow, c, counter[c]) :
          /\ Complete("counter_get", [row |-> CounterRow, column |-> c], r)
          /\ counter' = [counter EXCEPT ![c] = r.counter]
    /\ lastResp' = None
    /\ UNCHANGED sum

CounterInc ==
    /\ Idle
    /\ \E c \in CounterCols, d \in -MaxDelta..MaxDelta :
          /\ InRange(sum[c] + d)
          /\ \E r \in counter_inc(CounterRow, c, d, counter[c]) :
                /\ Complete("counter_inc",
                            [row |-> CounterRow, column |-> c, value |-> d], r)
                /\ counter' = [counter EXCEPT ![c] = r.counter]
                /\ sum' = IF r.pc = "returned" THEN [sum EXCEPT ![c] = @ + d] ELSE sum
    /\ lastResp' = None

CounterDec ==
    /\ Idle
    /\ \E c \in CounterCols, d \in -MaxDelta..MaxDelta :
          /\ InRange(sum[c] - d)
          /\ \E r \in counter_dec(CounterRow, c, d, counter[c]) :
                /\ Complete("counter_dec",
                            [row |-> CounterRow, column |-> c, value |-> d], r)
                /\ counter' = [counter EXCEPT ![c] = r.counter]
                /\ sum' = IF r.pc = "returned" THEN [sum EXCEPT ![c] = @ - d] ELSE sum
    /\ lastResp' = None

-----------------------------------------------------------------------------

Init ==
    /\ pc = "idle"
    /\ op = "none"
    /\ args = None
    /\ gen = NoGen
    /\ ret = None
    /\ err = NoErr
    /\ rpcs = <<>>
    /\ yielded = <<>>
    /\ scanner = NoScanner
    /\ lastResp = None
    /\ counter = [c \in CounterCols |-> Missing]
    /\ sum = [c \in CounterCols |-> 0]

Next ==
    \/ ScanCall
    \/ ScanFirstNext
    \/ ScanNext
    \/ ScanClose
    \/ MakeRowCall
    \/ MakeTimerangeCall
    \/ Row
    \/ Rows
    \/ Put
    \/ Delete

\* the read, write and scan operations, in any sequence
Spec == Init /\ [][Next]_vars

CounterNext ==
    \/ CounterGet
    \/ CounterInc
    \/ CounterDec

\* the counter operations, in any sequence
CounterSpec == Init /\ [][CounterNext]_vars

-----------------------------------------------------------------------------
(* Properties *)

RpcIndexes(name) == { i \in 1..Len(rpcs) : rpcs[i].op = name }

Closes(id) ==
    Cardinality({ i \in RpcIndexes("closeScanner") : rpcs[i].a.id = id })

ScanOpened == op = "scan" /\ gen.scan_id # 0

\* C1: once openScanner has returned a handle, closeScanner is never issued
\* twice for it, and it has been issued exactly once when control has left
\* the generator: by return (empty batch, limit reached), by an exception
\* of getScannerRows or of row decoding, or by the caller closing the
\* generator suspended at the yield.
C1_CloseExactlyOnce ==
    ScanOpened =>
        /\ Closes(gen.scan_id) <= 1
        /\ pc \in {"done", "raised", "closed"} => Closes(gen.scan_id) = 1

\* the caller abandoned the scan after two rows and the scanner was closed
C1_Witness ==
    /\ ScanOpened
    /\ pc = "closed"
    /\ Len(yielded) = 2
    /\ scanner.rows = 3
    /\ Closes(gen.scan_id) = 1

\* C2: with a limit L, a scan never yields more than L rows, and a scan
\* consumed to its end over a range of N rows has yielded min(L, N) rows.
C2_LimitRows ==
    (op = "scan" /\ ~IsNone(args.limit)) =>
        /\ Len(yielded) <= args.limit.v
        /\ pc = "done" => Len(yielded) = Min(args.limit.v, scanner.rows)

\* limit 2 over 3 rows, read in batches of 2, ended after exactly 2 rows
C2_Witness ==
    /\ op = "scan"
    /\ pc = "done"
    /\ args.limit = PyInt(2)
    /\ args.batch_size = 2
    /\ scanner.rows = 3
    /\ Len(yielded) = 2

InputChecks ==
    { "batch_size", "limit", "scan_batching", "row_prefix", "columns",
      "timerange", "column_syntax" }

\* C3: a scan, row, put or delete that fails on a local check of the
\* caller's input has issued no RPC.
C3_NoRpcBeforeInputError ==
    (/\ op \in {"scan", "row", "put", "delete"}
     /\ pc = "raised"
     /\ err.at \in InputChecks) => rpcs = <<>>

\* a scan was refused for a column without the separator
C3_Witness ==
    /\ op = "scan"
    /\ pc = "raised"
    /\ err = Raise("ValueError", "column_syntax")
    /\ rpcs = <<>>

\* the mapping the row decoder is specified to build from the first n cells
RECURSIVE ExpectedRow(_, _, _)
ExpectedRow(cells, n, include_timestamp) ==
    IF n = 0 THEN EmptyMap
    ELSE LET r == cells[n]
         IN  ((r.family \o <<Sep>> \o r.qualifier) :>
                (IF include_timestamp THEN <<r.value, r.timestamp>> ELSE r.value))
             @@ ExpectedRow(cells, n - 1, include_timestamp)

\* C4: make_row returns one mapping from 'family:qualifier' to the value
\* (to the pair (value, timestamp) with include_timestamp), the last cell
\* of a column winning.
C4_DecodeRowMapping ==
    (op = "make_row" /\ pc = "returned") =>
        /\ ret.t = "dict"
        /\ ret.v = ExpectedRow(args.cell_map.v, Len(args.cell_map.v),
                               args.include_timestamp)

\* C5: put with wal=None and well-formed data issues exactly one put RPC
\* whose durability is the table's configured default, and raises nothing
\* of its own.
C5_PutDefaultDurability ==
    (/\ op = "put"
     /\ IsNone(args.wal)
     /\ make_columnvalue(args.data).err = NoErr) =>
        /\ err.type \in {"none", "TransportFailure"}
        /\ Len(rpcs) = 1
        /\ rpcs[1].op = "put"
        /\ HasAttr(Self, "wal")
        /\ rpcs[1].a.tput.durability = Self["wal"]

\* C6: make_timerange returns None for None, the range (t, now) for a
\* one-element sequence, the range (a, b) for a two-element sequence, and
\* fails for every other shape.
C6_TimeRangeShapes ==
    op = "make_timerange" =>
        IF IsNone(args.ts) THEN pc = "returned" /\ ret = None
        ELSE IF IsSeq(args.ts) /\ Len(args.ts.v) = 1
             THEN pc = "returned" /\ ret = TTimeRange(args.ts.v[1], args.now)
        ELSE IF IsSeq(args.ts) /\ Len(args.ts.v) = 2
             THEN pc = "returned" /\ ret = TTimeRange(args.ts.v[1], args.ts.v[2])
        ELSE pc = "raised"

\* C7: rows with no key issues no RPC and returns an empty result; with
\* keys it issues one getMultiple RPC with one get request per key, in key
\* order, and returns the (row key, decoded row) pairs in the order of the
\* server's answer.
C7_RowsOneRpc ==
    op = "rows" =>
        IF Len(args.rows) = 0
        THEN /\ rpcs = <<>>
             /\ pc = "returned"
             /\ ret.t \in {"dict", "list"}
             /\ DOMAIN ret.v = {}
        ELSE /\ Len(rpcs) = 1
             /\ rpcs[1].op = "getMultiple"
             /\ Len(rpcs[1].a.tgets) = Len(args.rows)
             /\ \A i \in 1..Len(args.rows) : rpcs[1].a.tgets[i].row = args.rows[i]
             /\ pc = "returned" =>
                  /\ ret.t = "list"
                  /\ Len(ret.v) = Len(lastResp.v)
                  /\ \A i \in 1..Len(ret.v) :
                        ret.v[i] = <<lastResp.v[i].row,
                                     make_row(lastResp.v[i].columnValues,
                                              args.include_timestamp).val>>

\* two different keys were asked for and the server answered in the
\* opposite order
C7_Witness ==
    /\ op = "rows"
    /\ pc = "returned"
    /\ Len(args.rows) = 2
    /\ args.rows[1] # args.rows[2]
    /\ Len(ret.v) = 2
    /\ ret.v[1][1] = args.rows[2]
    /\ ret.v[2][1] = args.rows[1]

CounterOps == {"counter_get", "counter_inc", "counter_dec"}

\* C8: counter_get issues exactly one atomicIncrement RPC, with delta 0,
\* and no other RPC; every counter call that returns gives the RPC's result,
\* which is the sum of the signed deltas asked for on that column so far,
\* counted from 0 (so 0 for a counter_get on a column never seen before).
C8_CounterRunningSum ==
    op \in CounterOps =>
        /\ op = "counter_get" =>
              rpcs = <<Rpc("atomicIncrement",
                           [table |-> Self.name, row |-> args.row,
                            column |-> args.column, value |-> 0])>>
        /\ pc = "returned" =>
              /\ ret = PyInt(counter[args.column].v)
              /\ ret = PyInt(sum[args.column])

\* a decrement by 2 returned -1: the column had been incremented before
C8_Witness ==
    /\ op = "counter_dec"
    /\ pc = "returned"
    /\ args.value = 2
    /\ ret = PyInt(-1)
    /\ \E c \in CounterCols : ~counter[c].present

\* C9: every getScannerRows of a scan asks for min(batch_size, limit - rows
\* yielded so far) rows, or for batch_size rows without a limit; the count
\* is at least 1 and at most batch_size.
C9_FetchCount ==
    [][ \A i \in (Len(rpcs) + 1)..Len(rpcs') :
          (op' = "scan" /\ rpcs'[i].op = "getScannerRows") =>
              /\ rpcs'[i].a.n =
                    IF IsNone(args'.limit) THEN args'.batch_size
                    ELSE Min(args'.batch_size, args'.limit.v - Len(yielded))
              /\ rpcs'[i].a.n >= 1
              /\ rpcs'[i].a.n <= args'.batch_size ]_vars

\* with batch_size 2 and limit 3, a fetch asked for the one row still allowed
C9_Witness ==
    /\ op = "scan"
    /\ args.batch_size = 2
    /\ args.limit = PyInt(3)
    /\ Len(yielded) = 3
    /\ \E i \in RpcIndexes("getScannerRows") : rpcs[i].a.n = 1

\* C10: the rows are yielded in the order the server returned them; the
\* rows fetched and not yet yielded all belong to the one batch held; and
\* a getScannerRows is issued only when every row fetched has been yielded.
C10_LazyInOrder ==
    /\ [](op = "scan" =>
            /\ \A i \in 1..Len(yielded) : yielded[i][1] = i
            /\ Len(yielded) <= scanner.pos
            /\ scanner.pos - Len(yielded) <= Len(gen.items))
    /\ [][ (\E i \in (Len(rpcs) + 1)..Len(rpcs') :
               op' = "scan" /\ rpcs'[i].op = "getScannerRows")
           => Len(yielded) = scanner.pos ]_vars

\* three rows were yielded out of two batches
C10_Witness ==
    /\ op = "scan"
    /\ pc = "yield"
    /\ Len(yielded) = 3
    /\ Cardinality(RpcIndexes("getScannerRows")) = 2
    /\ Len(gen.items) = 1

====
